---------------------------- MODULE Spec2Model ----------------------------
(***************************************************************************)
(* Merge-mined auxiliary proof-of-work (AuxPoW) primitives of the Doge node *)
(* (src/primitives/block.{h,cpp}, src/primitives/block__.cpp,               *)
(* src/consensus/params.h, src/chainparams.cpp).                            *)
(*                                                                          *)
(* Encodings.  A byte is an integer 0..255.  A uint256 is a sequence of     *)
(* HashLen bytes in memory order (begin() first).  An int/int32_t is an     *)
(* integer in -2^31 .. 2^31-1.  TLC evaluates integers in 32 signed bits,   *)
(* so a uint32_t is kept as two 16-bit halves [hi, lo] (value hi*2^16+lo)   *)
(* and its arithmetic is written out on the halves.                         *)
(***************************************************************************)
EXTENDS Integers, Sequences, FiniteSets, TLC

VARIABLES
    aux,            \* the CAuxPow object under validation
    hashAuxBlock,   \* check's argument: hash of the block being validated
    nChainId,       \* check's argument: our chain id (int)
    params,         \* check's argument: Consensus::Params
    verdict,        \* outcome of CAuxPow::check of block.cpp ("none" before the call)
    verdictVariant, \* outcome of CAuxPow::check of block__.cpp
    idxNonce,       \* getExpectedIndex argument nNonce (uint32_t)
    idxH,           \* getExpectedIndex argument h
    idxOut,         \* getExpectedIndex result (<<>> before the call, <<value>> after)
    mLeaf,          \* CheckMerkleBranch argument hash
    mBranch,        \* CheckMerkleBranch argument vMerkleBranch
    mIndex,         \* CheckMerkleBranch argument nIndex
    mOut,           \* CheckMerkleBranch result (<<>> before the call)
    header,         \* a CBlockHeader object
    origin,         \* the last operation that wrote header
    called,         \* <<nBaseVersion, nChainId>> of the last SetBaseVersion call (<<>>: none)
    stream,         \* the last serialization of header: [type, aborted, bytes], <<>> before
    rx,             \* the header read back from stream (<<>> before, <<header>> after)
    hashOut,        \* GetHash result (<<>> before the call)
    globalChainParams, \* the registry: 0 for a null unique_ptr, else the object it owns
    heap,           \* the CChainParams objects ever created: [network, live]
    held,           \* a reference a reader keeps from a Params() call (0: none)
    seen,           \* what the reader's last call observed
    nWrites,        \* assignments to globalChainParams so far
    selects         \* the networks of the SelectParams calls that completed, in order

checkVars == <<aux, hashAuxBlock, nChainId, params, verdict, verdictVariant,
               idxNonce, idxH, idxOut, mLeaf, mBranch, mIndex, mOut>>
headerVars == <<header, origin, called, stream, rx, hashOut>>
registryVars == <<globalChainParams, heap, held, seen, nWrites, selects>>

vars == <<checkVars, headerVars, registryVars>>

(***************************************************************************)
(* Program constants                                                        *)
(***************************************************************************)
\* sizeof(uint256): the width of every hash and of every Merkle sibling
HashLen == 32
\* the largest chain merkle branch CAuxPow::check lets through
MaxChainBranch == 30
\* the backward-compatibility limit on the root's offset in the script
LegacyRootLimit == 20
\* the script bytes needed after the root: merkle size and nonce
SizeNonceLen == 8
\* generator constants of getExpectedIndex
LcgMul == 1103515245
LcgAdd == 12345
\* Consensus::Params::nAuxpowChainId of all three networks (0x0062)
AuxpowChainId == 98

\* static const unsigned char pchMergedHdr[] = { 0xfa, 0xbe, 'm', 'm' }
pchMergedHdr == <<250, 190, 109, 109>>

(***************************************************************************)
(* Bounds of the model                                                      *)
(***************************************************************************)
\* the over-long chain merkle branch offered to check
LongBranch == 31
\* the longest branch offered to CheckMerkleBranch on its own
MaxBranch == 3

(***************************************************************************)
(* uint32_t arithmetic                                                      *)
(***************************************************************************)
U32(h, l) == [hi |-> h, lo |-> l]

\* conversion int -> uint32_t (value mod 2^32)
IntToU32(n) == U32((n \div 65536) % 65536, n % 65536)

\* full 32-bit product of two 16-bit halves
Mul16(a, b) ==
    LET p0 == a * (b % 256)
        p1 == a * (b \div 256)
        low == p0 + (p1 % 256) * 256
    IN  U32(((p1 \div 256) + (low \div 65536)) % 65536, low % 65536)

\* uint32_t * uint32_t, wrapping
MulU32(a, b) ==
    LET ll == Mul16(a.lo, b.lo)
    IN  U32((ll.hi + Mul16(a.hi, b.lo).lo + Mul16(a.lo, b.hi).lo) % 65536, ll.lo)

\* uint32_t + uint32_t, wrapping
AddU32(a, b) ==
    LET low == a.lo + b.lo
    IN  U32((a.hi + b.hi + (low \div 65536)) % 65536, low % 65536)

\* 1u << h and (unsigned)(1 << h), h <= 31
Shl1(h) == IF h < 16 THEN U32(0, 2 ^ h) ELSE U32(2 ^ (h - 16), 0)

\* rand % (1 << h) returned as int, h <= 30
ModShl1(rand, h) == (((rand.hi % 16384) * 65536) + rand.lo) % (2 ^ h)

\* getExpectedIndex with the chain id added as a signed quantity that is
\* dropped when negative instead of wrapping
getExpectedIndex_signedAdd(nNonce, chainId, h) ==
    LET r1 == AddU32(MulU32(nNonce, IntToU32(LcgMul)), IntToU32(LcgAdd))
        r2 == IF chainId < 0 THEN r1 ELSE AddU32(r1, IntToU32(chainId))
        r3 == AddU32(MulU32(r2, IntToU32(LcgMul)), IntToU32(LcgAdd))
    IN  ModShl1(r3, h)

\* int getExpectedIndex (uint32_t nNonce, int nChainId, unsigned h)
getExpectedIndex(nNonce, chainId, h) ==
    LET r1 == AddU32(MulU32(nNonce, IntToU32(LcgMul)), IntToU32(LcgAdd))
        r2 == AddU32(r1, IntToU32(chainId))
        r3 == AddU32(MulU32(r2, IntToU32(LcgMul)), IntToU32(LcgAdd))
    IN  ModShl1(r3, h)

(***************************************************************************)
(* Hashes and the Merkle verifier                                           *)
(***************************************************************************)
\* uint256(): the all-zero hash
ZeroHash == [i \in 1..HashLen |-> 0]

\* Hash(a.begin, a.end, b.begin, b.end): double SHA-256 of a || b.  The
\* digest is outside the repository sources; it is represented by a fixed
\* byte-mixing function of the ordered pair (not symmetric in a and b, and
\* one-to-one in each argument).
Hash(a, b) == [i \in 1..HashLen |-> (7 * a[i] + 13 * b[i] + 29 * i + 101) % 256]

RECURSIVE MerkleLoop_swapped(_, _, _, _)
MerkleLoop_swapped(hash, vMerkleBranch, it, nIndex) ==
    IF it > Len(vMerkleBranch) THEN hash
    ELSE MerkleLoop_swapped(IF nIndex % 2 = 1
                              THEN Hash(hash, vMerkleBranch[it])
                              ELSE Hash(vMerkleBranch[it], hash),
                            vMerkleBranch, it + 1, nIndex \div 2)

\* the for loop of CheckMerkleBranch: nIndex & 1 selects the side,
\* nIndex >>= 1 is the arithmetic shift of a signed int
RECURSIVE MerkleLoop(_, _, _, _)
MerkleLoop(hash, vMerkleBranch, it, nIndex) ==
    IF it > Len(vMerkleBranch) THEN hash
    ELSE MerkleLoop(IF nIndex % 2 = 1
                      THEN Hash(vMerkleBranch[it], hash)
                      ELSE Hash(hash, vMerkleBranch[it]),
                    vMerkleBranch, it + 1, nIndex \div 2)

\* CheckMerkleBranch with every negative index treated as the sentinel
CheckMerkleBranch_negSentinel(hash, vMerkleBranch, nIndex) ==
    IF nIndex < 0 THEN ZeroHash
    ELSE MerkleLoop(hash, vMerkleBranch, 1, nIndex)

\* uint256 CheckMerkleBranch (uint256 hash, const std::vector<uint256>&, int nIndex)
CheckMerkleBranch(hash, vMerkleBranch, nIndex) ==
    IF nIndex = -1 THEN ZeroHash
    ELSE MerkleLoop(hash, vMerkleBranch, 1, nIndex)

(***************************************************************************)
(* Script inspection                                                        *)
(***************************************************************************)
\* std::reverse on a byte vector
Reverse(v) == [i \in 1..Len(v) |-> v[Len(v) + 1 - i]]

\* whether needle lies in hay at offset pos (offsets count from 0)
MatchAt(hay, pos, needle) == \A k \in 1..Len(needle) : hay[pos + k] = needle[k]

\* std::search(hay.begin() + first, hay.end(), needle.begin(), needle.end())
\* as an offset from hay.begin(); hay.end() is Len(hay)
RECURSIVE Search(_, _, _)
Search(hay, first, needle) ==
    IF first + Len(needle) > Len(hay) THEN Len(hay)
    ELSE IF MatchAt(hay, first, needle) THEN first
    ELSE Search(hay, first + 1, needle)

\* memcpy(&n, &pc[0], 4); n = le32toh(n)
ReadLE32(script, pc) ==
    U32(script[pc + 3] + 256 * script[pc + 4], script[pc + 1] + 256 * script[pc + 2])

\* CBlockHeader::GetChainId: nVersion >> 16 on int32_t
GetChainId_lowBits(hdr) == hdr.nVersion % 65536

GetChainId(hdr) == hdr.nVersion \div 65536

(***************************************************************************)
(* CAuxPow::check                                                           *)
(*                                                                          *)
(* An AuxPoW is a record                                                    *)
(*   [tx |-> [hash, scriptSig], vMerkleBranch, nIndex, vChainMerkleBranch,  *)
(*    nChainIndex, parentBlock |-> [nVersion, hashMerkleRoot]]              *)
(* where tx.hash is tx->GetHash() and tx.scriptSig is                       *)
(* tx->vin[0].scriptSig (the coinbase is taken to have a first input).      *)
(* The result is "OK" for true, and otherwise names the error returned.     *)
(***************************************************************************)
\* vChainMerkleBranch.size() > 30, with the limit one too low
BranchTooLong_offByOne(a) == Len(a.vChainMerkleBranch) >= MaxChainBranch

\* vChainMerkleBranch.size() > 30
BranchTooLong(a) == Len(a.vChainMerkleBranch) > MaxChainBranch

\* the marker policy without the search for a second header
MarkerPolicy_noSecondSearch(script, pcHead, pc) ==
    IF pcHead # Len(script)
      THEN IF pcHead + Len(pchMergedHdr) # pc THEN "HeaderNotJustBeforeRoot" ELSE "OK"
      ELSE IF pc > LegacyRootLimit THEN "RootMustStartInFirst20Bytes" ELSE "OK"

\* the marker policy with the backward-compatibility limit one too low
MarkerPolicy_strictLimit(script, pcHead, pc) ==
    IF pcHead # Len(script)
      THEN IF Len(script) # Search(script, pcHead + 1, pchMergedHdr)
             THEN "MultipleMergedMiningHeaders"
             ELSE IF pcHead + Len(pchMergedHdr) # pc THEN "HeaderNotJustBeforeRoot" ELSE "OK"
      ELSE IF pc >= LegacyRootLimit THEN "RootMustStartInFirst20Bytes" ELSE "OK"

\* if (pcHead != script.end()) { ... } else { ... }: the merged mining header
\* must be unique and just before the root, or else the root must start early
MarkerPolicy(script, pcHead, pc) ==
    IF pcHead # Len(script)
      THEN IF Len(script) # Search(script, pcHead + 1, pchMergedHdr)
             THEN "MultipleMergedMiningHeaders"
             ELSE IF pcHead + Len(pchMergedHdr) # pc THEN "HeaderNotJustBeforeRoot" ELSE "OK"
      ELSE IF pc > LegacyRootLimit THEN "RootMustStartInFirst20Bytes" ELSE "OK"

\* the size and nonce checks with the length test one byte too strict
SizeAndIndex_needsNine(script, pcRoot, merkleHeight, nChainIndex, chainId) ==
    LET pc == pcRoot + HashLen
    IN  IF Len(script) - pc <= SizeNonceLen THEN "ChainMerkleSizeMissing"
        ELSE IF ReadLE32(script, pc) # Shl1(merkleHeight) THEN "MerkleBranchSizeMismatch"
        ELSE IF nChainIndex # getExpectedIndex(ReadLE32(script, pc + 4), chainId, merkleHeight)
               THEN "WrongIndex"
        ELSE "OK"

\* the size and nonce checks with the index compared on its low
\* merkleHeight bits only
SizeAndIndex_lowBitsOnly(script, pcRoot, merkleHeight, nChainIndex, chainId) ==
    LET pc == pcRoot + HashLen
    IN  IF Len(script) - pc < SizeNonceLen THEN "ChainMerkleSizeMissing"
        ELSE IF ReadLE32(script, pc) # Shl1(merkleHeight) THEN "MerkleBranchSizeMismatch"
        ELSE IF nChainIndex % (2 ^ merkleHeight)
                   # getExpectedIndex(ReadLE32(script, pc + 4), chainId, merkleHeight)
               THEN "WrongIndex"
        ELSE "OK"

\* pc += vchRootHash.size() and what follows: the merkle tree size and the
\* nonce are read after the root, and the index is compared
SizeAndIndex(script, pcRoot, merkleHeight, nChainIndex, chainId) ==
    LET pc == pcRoot + HashLen
    IN  IF Len(script) - pc < SizeNonceLen THEN "ChainMerkleSizeMissing"
        ELSE IF ReadLE32(script, pc) # Shl1(merkleHeight) THEN "MerkleBranchSizeMismatch"
        ELSE IF nChainIndex # getExpectedIndex(ReadLE32(script, pc + 4), chainId, merkleHeight)
               THEN "WrongIndex"
        ELSE "OK"

\* the part of check that both files share: from the search of the script on
CheckScript(script, vchRootHash, merkleHeight, nChainIndex, chainId) ==
    LET pcHead == Search(script, 0, pchMergedHdr)
        pc == Search(script, 0, vchRootHash)
    IN  IF pc = Len(script) THEN "MissingChainMerkleRoot"
        ELSE LET marker == MarkerPolicy(script, pcHead, pc)
             IN  IF marker # "OK" THEN marker
                 ELSE SizeAndIndex(script, pc, merkleHeight, nChainIndex, chainId)

\* check with the chain id tested before the coinbase index
check_chainIdFirst(a, hashAux, chainId, p) ==
    IF p.fStrictChainId /\ GetChainId(a.parentBlock) = chainId THEN "ParentHasOurChainId"
    ELSE IF a.nIndex # 0 THEN "NotAGenerate"
    ELSE IF BranchTooLong(a) THEN "ChainBranchTooLong"
    ELSE LET nRootHash == CheckMerkleBranch(hashAux, a.vChainMerkleBranch, a.nChainIndex)
             vchRootHash == Reverse(nRootHash)
         IN  IF CheckMerkleBranch(a.tx.hash, a.vMerkleBranch, a.nIndex)
                    # a.parentBlock.hashMerkleRoot
               THEN "MerkleRootIncorrect"
               ELSE CheckScript(a.tx.scriptSig, vchRootHash, Len(a.vChainMerkleBranch),
                                a.nChainIndex, chainId)

\* bool CAuxPow::check (hashAuxBlock, nChainId, params) const   -- block.cpp
check(a, hashAux, chainId, p) ==
    IF a.nIndex # 0 THEN "NotAGenerate"
    ELSE IF p.fStrictChainId /\ GetChainId(a.parentBlock) = chainId THEN "ParentHasOurChainId"
    ELSE IF BranchTooLong(a) THEN "ChainBranchTooLong"
    ELSE LET nRootHash == CheckMerkleBranch(hashAux, a.vChainMerkleBranch, a.nChainIndex)
             vchRootHash == Reverse(nRootHash)
         IN  IF CheckMerkleBranch(a.tx.hash, a.vMerkleBranch, a.nIndex)
                    # a.parentBlock.hashMerkleRoot
               THEN "MerkleRootIncorrect"
               ELSE CheckScript(a.tx.scriptSig, vchRootHash, Len(a.vChainMerkleBranch),
                                a.nChainIndex, chainId)

\* the check of block__.cpp with the coinbase proof tested before the length
\* of the chain merkle branch
checkVariant_proofFirst(a, hashAux, chainId, p) ==
    IF p.fStrictChainId /\ GetChainId(a.parentBlock) = chainId THEN "ParentHasOurChainId"
    ELSE IF CheckMerkleBranch(a.tx.hash, a.vMerkleBranch, 0) # a.parentBlock.hashMerkleRoot
      THEN "MerkleRootIncorrect"
    ELSE IF BranchTooLong(a) THEN "ChainBranchTooLong"
    ELSE CheckScript(a.tx.scriptSig,
                     Reverse(CheckMerkleBranch(hashAux, a.vChainMerkleBranch, a.nChainIndex)),
                     Len(a.vChainMerkleBranch), a.nChainIndex, chainId)

\* bool CAuxPow::check (hashAuxBlock, nChainId, params) const   -- block__.cpp:
\* nIndex is not tested and 0 is handed to CheckMerkleBranch
checkVariant(a, hashAux, chainId, p) ==
    IF p.fStrictChainId /\ GetChainId(a.parentBlock) = chainId THEN "ParentHasOurChainId"
    ELSE IF BranchTooLong(a) THEN "ChainBranchTooLong"
    ELSE LET nRootHash == CheckMerkleBranch(hashAux, a.vChainMerkleBranch, a.nChainIndex)
             vchRootHash == Reverse(nRootHash)
         IN  IF CheckMerkleBranch(a.tx.hash, a.vMerkleBranch, 0)
                    # a.parentBlock.hashMerkleRoot
               THEN "MerkleRootIncorrect"
               ELSE CheckScript(a.tx.scriptSig, vchRootHash, Len(a.vChainMerkleBranch),
                                a.nChainIndex, chainId)

\* Consensus::Params of CMainParams, CTestNetParams and CRegTestParams: the
\* AuxPoW and retarget-timespan fields
ConsensusParams(network) ==
    [nAuxpowChainId |-> AuxpowChainId,
     fStrictChainId |-> (network # "test"),
     nPowTargetTimespanBegin |-> IF network = "regtest" THEN 1 ELSE 4 * 60 * 60,
     nPowTargetSpacing |-> IF network = "regtest" THEN 1 ELSE 60,
     PowTargetTimespan60Height |-> IF network = "regtest" THEN 100000 ELSE 145000]

Networks == {"main", "test", "regtest"}

(***************************************************************************)
(* The parameter registry (chainparams.cpp) and the retarget timespan       *)
(*                                                                          *)
(* heap is the sequence of the CChainParams objects created so far, each    *)
(* [network, live]; globalChainParams is 0 (null) or the position of the    *)
(* object the unique_ptr owns.  A reference is the position of an object.   *)
(***************************************************************************)
\* Consensus::Params::nPowTargetTimespan(int Height)
nPowTargetTimespan(p, Height) ==
    IF Height >= p.PowTargetTimespan60Height THEN 60 ELSE p.nPowTargetTimespanBegin

\* the networks a caller may name, one of them unknown to CreateChainParams
RequestedNetworks == Networks \cup {"unknown"}

\* CreateChainParams: <<>> for the runtime_error thrown on an unknown chain,
\* else the object created
CreateChainParams(chain) ==
    IF chain \in Networks THEN <<[network |-> chain, live |-> TRUE]>> ELSE <<>>

\* SelectParams that leaves the object it replaces alive
SelectParamsEffect_leaksOld(g, hp, network) ==
    LET made == CreateChainParams(network)
    IN  IF made = <<>> THEN [g |-> g, heap |-> hp, wrote |-> FALSE]
        ELSE [g |-> Len(hp) + 1, heap |-> hp \o made, wrote |-> TRUE]

\* SelectParams that keeps the first object once one is installed
SelectParamsEffect_once(g, hp, network) ==
    LET made == CreateChainParams(network)
    IN  IF made = <<>> \/ g # 0 THEN [g |-> g, heap |-> hp, wrote |-> FALSE]
        ELSE [g |-> Len(hp) + 1, heap |-> hp \o made, wrote |-> TRUE]

\* SelectParams: globalChainParams = CreateChainParams(network); the
\* assignment to the unique_ptr deletes the object it owned.  Nothing is
\* written when the network is unknown (SelectBaseParams or
\* CreateChainParams throws first).
SelectParamsEffect(g, hp, network) ==
    LET made == CreateChainParams(network)
    IN  IF made = <<>> THEN [g |-> g, heap |-> hp, wrote |-> FALSE]
        ELSE [g |-> Len(hp) + 1,
              heap |-> [k \in 1..Len(hp) |-> [hp[k] EXCEPT !.live = FALSE]] \o made,
              wrote |-> TRUE]

\* what a reader sees of a live CChainParams object
ViewOf(obj) == [kind |-> "params", network |-> obj.network,
                consensus |-> ConsensusParams(obj.network)]

\* what a read through a reference can give: the object's contents while it
\* lives; anything once it has been deleted
ReadOutcomes(hp, ref) ==
    IF hp[ref].live THEN {ViewOf(hp[ref])}
    ELSE {ViewOf([network |-> n, live |-> FALSE]) : n \in Networks} \cup {[kind |-> "garbage"]}

\* Params(): assert(globalChainParams); return *globalChainParams
ParamsResult(g, hp) == IF g = 0 THEN [kind |-> "aborted"] ELSE ViewOf(hp[g])

(***************************************************************************)
(* CBlockHeader                                                             *)
(*                                                                          *)
(* A header is a record [nVersion, hashPrevBlock, hashMerkleRoot, nTime,    *)
(* nBits, nNonce, auxpow]; auxpow is <<>> for a null shared_ptr and <<a>>   *)
(* for a pointer to the CAuxPow a.  A CAuxPow held by a header is the       *)
(* record of CAuxPow::check with the fields hashBlock and the whole         *)
(* parentBlock added; a transaction is [hash, scriptSig, vin] with vin the  *)
(* number of inputs (0 or 1).                                               *)
(***************************************************************************)
\* static const int32_t VERSION_AUXPOW = (1 << 8)
VERSION_AUXPOW == 256

\* conversion uint32_t -> int32_t (two's complement)
U32ToInt(u) == IF u.hi >= 32768 THEN (u.hi - 65536) * 65536 + u.lo ELSE u.hi * 65536 + u.lo

\* CBlockHeader::SetNull
NullHeader ==
    [nVersion |-> 0, hashPrevBlock |-> ZeroHash, hashMerkleRoot |-> ZeroHash,
     nTime |-> U32(0, 0), nBits |-> U32(0, 0), nNonce |-> U32(0, 0), auxpow |-> <<>>]

\* CBlockHeader::GetBaseVersion: nVersion & 0xFF
GetBaseVersion(h) == h.nVersion % 256

\* CBlockHeader::IsAuxpow: nVersion & VERSION_AUXPOW
IsAuxpow(h) == (h.nVersion \div VERSION_AUXPOW) % 2 = 1

\* CBlockHeader::IsLegacy
IsLegacy(h) == h.nVersion = 1 \/ (h.nVersion = 2 /\ GetChainId(h) = 0)

\* nChainId << 16 on int32_t; a result beyond 2^31-1 is taken as the
\* two's-complement value of its low 32 bits
Shl16(n) == U32ToInt(U32(n % 65536, 0))

\* CBlockHeader::SetBaseVersion; the result is [aborted, h], aborted when an
\* assert fails.  Under the first assert nBaseVersion has no bit in common
\* with nChainId << 16, so the bitwise or is their sum.
SetBaseVersion(h, nBaseVersion, chainId) ==
    IF ~(nBaseVersion >= 1 /\ nBaseVersion < VERSION_AUXPOW) \/ IsAuxpow(h)
      THEN [aborted |-> TRUE, h |-> h]
      ELSE [aborted |-> FALSE, h |-> [h EXCEPT !.nVersion = nBaseVersion + Shl16(chainId)]]

\* CBlockHeader::SetAuxpowFlag(true) (used by block__.cpp, declared in no
\* file of the sources): nVersion |= VERSION_AUXPOW
SetAuxpowFlag(h) ==
    IF IsAuxpow(h) THEN h ELSE [h EXCEPT !.nVersion = h.nVersion + VERSION_AUXPOW]

\* CTransaction::GetHash: a digest of the transaction's contents, here of its
\* first input's script
TxDigest(script) ==
    [i \in 1..HashLen |->
        (Len(script) + 3 * i + (IF i <= Len(script) THEN 5 * script[i] ELSE 0)) % 256]

MakeTx(script, nIn) == [hash |-> TxDigest(script), scriptSig |-> script, vin |-> nIn]

\* CAuxPow::CAuxPow(): nIndex(-1), an empty transaction; nChainIndex is not
\* initialised and holds whatever the memory held (garbage)
DefaultAuxPow(garbage) ==
    [tx |-> MakeTx(<<>>, 0), hashBlock |-> ZeroHash, vMerkleBranch |-> <<>>, nIndex |-> -1,
     vChainMerkleBranch |-> <<>>, nChainIndex |-> garbage, parentBlock |-> NullHeader]

(***************************************************************************)
(* Serialization.  The primitive encodings (serialize.h, not among the      *)
(* sources) are those of the wire layout: integers little-endian, a hash    *)
(* as its 32 bytes, a vector as CompactSize and its elements.               *)
(***************************************************************************)
SerTypes == {"SER_NETWORK", "SER_DISK", "SER_GETHASH"}

WriteLE32(u) == <<u.lo % 256, u.lo \div 256, u.hi % 256, u.hi \div 256>>

WriteCompactSize(n) == IF n < 253 THEN <<n>> ELSE <<253, n % 256, n \div 256>>

\* [val, next]: the size read at offset pos and the offset after it
ReadCompactSize(b, pos) ==
    IF b[pos + 1] < 253 THEN [val |-> b[pos + 1], next |-> pos + 1]
    ELSE [val |-> b[pos + 2] + 256 * b[pos + 3], next |-> pos + 3]

RECURSIVE WriteHashes(_, _)
WriteHashes(v, k) == IF k > Len(v) THEN <<>> ELSE v[k] \o WriteHashes(v, k + 1)

WriteVector(v) == WriteCompactSize(Len(v)) \o WriteHashes(v, 1)

ReadVector(b, pos) ==
    LET n == ReadCompactSize(b, pos)
    IN  [val |-> [k \in 1..n.val |->
                     SubSeq(b, n.next + (k - 1) * HashLen + 1, n.next + k * HashLen)],
         next |-> n.next + n.val * HashLen]

\* a transaction on the wire: its number of inputs and the first input's script
WriteTx(tx) ==
    <<tx.vin>> \o (IF tx.vin = 0 THEN <<>>
                   ELSE WriteCompactSize(Len(tx.scriptSig)) \o tx.scriptSig)

ReadTx(b, pos) ==
    IF b[pos + 1] = 0 THEN [val |-> MakeTx(<<>>, 0), next |-> pos + 1]
    ELSE LET n == ReadCompactSize(b, pos + 1)
         IN  [val |-> MakeTx(SubSeq(b, n.next + 1, n.next + n.val), b[pos + 1]),
              next |-> n.next + n.val]

\* the six READWRITEs that CBlockHeader and CAuxPow (for parentBlock) share
WriteSixFields(h) ==
    WriteLE32(IntToU32(h.nVersion)) \o h.hashPrevBlock \o h.hashMerkleRoot
        \o WriteLE32(h.nTime) \o WriteLE32(h.nBits) \o WriteLE32(h.nNonce)

ReadSixFields(h, b, pos) ==
    [h EXCEPT !.nVersion = U32ToInt(ReadLE32(b, pos)),
              !.hashPrevBlock = SubSeq(b, pos + 5, pos + 4 + HashLen),
              !.hashMerkleRoot = SubSeq(b, pos + 5 + HashLen, pos + 4 + 2 * HashLen),
              !.nTime = ReadLE32(b, pos + 4 + 2 * HashLen),
              !.nBits = ReadLE32(b, pos + 8 + 2 * HashLen),
              !.nNonce = ReadLE32(b, pos + 12 + 2 * HashLen)]

\* CAuxPow::SerializationOp writing the two indexes in each other's place
SerializeAuxPow_swappedIndexes(a) ==
    WriteTx(a.tx) \o a.hashBlock \o WriteVector(a.vMerkleBranch)
        \o WriteLE32(IntToU32(a.nChainIndex)) \o WriteVector(a.vChainMerkleBranch)
        \o WriteLE32(IntToU32(a.nIndex)) \o WriteSixFields(a.parentBlock)

\* CAuxPow::SerializationOp, writing
SerializeAuxPow(a) ==
    WriteTx(a.tx) \o a.hashBlock \o WriteVector(a.vMerkleBranch)
        \o WriteLE32(IntToU32(a.nIndex)) \o WriteVector(a.vChainMerkleBranch)
        \o WriteLE32(IntToU32(a.nChainIndex)) \o WriteSixFields(a.parentBlock)

\* CAuxPow::SerializationOp, reading into the object a
UnserializeAuxPow(a, b, pos) ==
    LET tx == ReadTx(b, pos)
        p1 == tx.next + HashLen
        mb == ReadVector(b, p1)
        cb == ReadVector(b, mb.next + 4)
    IN  [a EXCEPT !.tx = tx.val,
                  !.hashBlock = SubSeq(b, tx.next + 1, p1),
                  !.vMerkleBranch = mb.val,
                  !.nIndex = U32ToInt(ReadLE32(b, mb.next)),
                  !.vChainMerkleBranch = cb.val,
                  !.nChainIndex = U32ToInt(ReadLE32(b, cb.next)),
                  !.parentBlock = ReadSixFields(a.parentBlock, b, cb.next + 4)]

\* CBlockHeader::SerializationOp that always writes the appendix of an
\* auxpow header, whatever the stream's type
Serialize_ignoresType(h, nType) ==
    IF IsAuxpow(h)
      THEN IF h.auxpow = <<>> THEN [aborted |-> TRUE, bytes |-> <<>>]
           ELSE [aborted |-> FALSE,
                 bytes |-> WriteSixFields(h) \o SerializeAuxPow(h.auxpow[1])]
      ELSE [aborted |-> FALSE, bytes |-> WriteSixFields(h)]

\* CBlockHeader::SerializationOp, writing; aborted when assert(auxpow) fails
Serialize(h, nType) ==
    IF nType # "SER_GETHASH" /\ IsAuxpow(h)
      THEN IF h.auxpow = <<>> THEN [aborted |-> TRUE, bytes |-> <<>>]
           ELSE [aborted |-> FALSE,
                 bytes |-> WriteSixFields(h) \o SerializeAuxPow(h.auxpow[1])]
      ELSE [aborted |-> FALSE, bytes |-> WriteSixFields(h)]

\* CBlockHeader::SerializationOp, reading into the object h; SetAuxpowInitDef
\* makes the CAuxPow the appendix is read into
Unserialize(h, b, nType, garbage) ==
    LET six == ReadSixFields(h, b, 0)
    IN  IF nType = "SER_GETHASH" THEN six
        ELSE IF IsAuxpow(six)
               THEN [six EXCEPT !.auxpow =
                        <<UnserializeAuxPow(DefaultAuxPow(garbage), b, Len(WriteSixFields(six)))>>]
               ELSE [six EXCEPT !.auxpow = <<>>]

\* SerializeHash: the double SHA-256 of the bytes written to a hash stream
\* (hash.h, not among the sources), a fixed function of all the bytes
ByteAt(b, k) == IF k <= Len(b) THEN b[k] ELSE 0
HashOfBytes(b) ==
    [i \in 1..HashLen |->
        (ByteAt(b, i) + 3 * ByteAt(b, HashLen + i) + 5 * ByteAt(b, 2 * HashLen + i)
           + 11 * ByteAt(b, 3 * HashLen + i) + 13 * Len(b) + 7 * i) % 256]

\* CBlockHeader::GetHash
GetHash(h) == HashOfBytes(Serialize(h, "SER_GETHASH").bytes)

\* CBlockHeader::buildSimpleAuxPow (block__.cpp).  CScript() << inputData
\* pushes the 40 bytes behind one length byte; BlockMerkleRoot of a block of
\* one transaction is that transaction's hash.
buildSimpleAuxPow(h) ==
    LET blockHash == GetHash(h)
        inputData == Reverse(blockHash) \o <<1>> \o [k \in 1..7 |-> 0]
        coinbase == MakeTx(<<Len(inputData)>> \o inputData, 1)
        parent == [NullHeader EXCEPT !.nVersion = 1, !.hashMerkleRoot = coinbase.hash]
        flagged == SetAuxpowFlag(h)
    IN  [flagged EXCEPT !.auxpow =
            <<[DefaultAuxPow(0) EXCEPT !.tx = coinbase, !.vMerkleBranch = <<>>,
                                       !.vChainMerkleBranch = <<>>, !.nChainIndex = 0,
                                       !.parentBlock = parent]>>]

(***************************************************************************)
(* Reference definitions used to state the properties.  They are written    *)
(* independently of the operators above: numbers are little-endian digit    *)
(* sequences of any length (no wrapping happens unless stated), index bits  *)
(* are taken directly from the two's-complement value, and positions in a   *)
(* script are sets of occurrences.                                          *)
(***************************************************************************)
\* carry propagation: column sums (least significant first) to base-256 digits
RECURSIVE Normalize(_, _, _)
Normalize(cols, i, carry) ==
    IF i > Len(cols)
      THEN IF carry = 0 THEN <<>> ELSE <<carry % 256>> \o Normalize(cols, i, carry \div 256)
      ELSE <<(cols[i] + carry) % 256>> \o Normalize(cols, i + 1, (cols[i] + carry) \div 256)

DigitAt(d, i) == IF i >= 1 /\ i <= Len(d) THEN d[i] ELSE 0

RECURSIVE ColumnSum(_, _, _, _)
ColumnSum(a, b, k, i) ==
    IF i > Len(a) THEN 0 ELSE a[i] * DigitAt(b, k + 1 - i) + ColumnSum(a, b, k, i + 1)

\* exact sum and exact product of two naturals
NatAdd(a, b) ==
    LET n == IF Len(a) > Len(b) THEN Len(a) ELSE Len(b)
    IN  Normalize([i \in 1..n |-> DigitAt(a, i) + DigitAt(b, i)], 1, 0)

NatMul(a, b) ==
    Normalize([k \in 1..(Len(a) + Len(b)) |-> ColumnSum(a, b, k, 1)], 1, 0)

\* n mod 2^32: the four lowest digits
Mod32(d) == <<DigitAt(d, 1), DigitAt(d, 2), DigitAt(d, 3), DigitAt(d, 4)>>

\* the digits of (n mod 2^32) for an int n; for n < 0 these are the digits of
\* n + 2^32
IntDigits(n) == <<n % 256, (n \div 256) % 256, (n \div 65536) % 256, (n \div 16777216) % 256>>

\* the digits of a uint32_t
U32Digits(u) == <<u.lo % 256, u.lo \div 256, u.hi % 256, u.hi \div 256>>

\* (four digits) mod 2^h for h <= 30
ModPow2(d, h) == (d[1] + 256 * d[2] + 65536 * d[3] + 16777216 * (d[4] % 64)) % (2 ^ h)

\* ((((nonce*1103515245 + 12345) mod 2^32 + chain_id) mod 2^32) * 1103515245
\*   + 12345) mod 2^32 mod 2^h
RefExpectedIndex(nonce, chainId, h) ==
    LET r1 == Mod32(NatAdd(NatMul(U32Digits(nonce), IntDigits(LcgMul)), IntDigits(LcgAdd)))
        r2 == Mod32(NatAdd(r1, IntDigits(chainId)))
        r3 == Mod32(NatAdd(NatMul(r2, IntDigits(LcgMul)), IntDigits(LcgAdd)))
    IN  ModPow2(r3, h)

\* bit k (k = 0 is the lowest) of the two's-complement form of an int
IndexBit(index, k) == IF k >= 31 THEN (IF index < 0 THEN 1 ELSE 0)
                                 ELSE (index \div (2 ^ k)) % 2

\* the fold over the first k siblings, starting from the leaf
RECURSIVE RefFold(_, _, _, _)
RefFold(leaf, branch, index, k) ==
    IF k = 0 THEN leaf
    ELSE LET h == RefFold(leaf, branch, index, k - 1)
         IN  IF IndexBit(index, k - 1) = 1 THEN Hash(branch[k], h) ELSE Hash(h, branch[k])

\* the reference Merkle verifier
RefMerkleRoot(leaf, branch, index) ==
    IF index = -1 THEN [i \in 1..HashLen |-> 0] ELSE RefFold(leaf, branch, index, Len(branch))

\* offsets (from 0) at which needle occurs in script
Occurrences(script, needle) ==
    UNION {{i \in 0..(Len(script) - Len(nd)) : SubSeq(script, i + 1, i + Len(nd)) = nd}
             : nd \in {needle}}

Least(S) == CHOOSE x \in S : \A y \in S : x <= y

\* little-endian bytes of a uint32_t, and of 2^h
LE32(u) == U32Digits(u)
LE32Pow2(h) == [k \in 1..4 |-> IF k = (h \div 8) + 1 THEN 2 ^ (h % 8) ELSE 0]

(***************************************************************************)
(* Inputs                                                                   *)
(***************************************************************************)
\* block hashes: a generic one, one of a single repeated byte ('m'), and one
\* whose reversed bytes hold the merged mining header
HashA == [i \in 1..HashLen |-> (17 * i + 3) % 256]
HashAllM == [i \in 1..HashLen |-> 109]
HashWithHdr == [i \in 1..HashLen |->
                  CASE i = 9 -> 109 [] i = 10 -> 109 [] i = 11 -> 190 [] i = 12 -> 250
                    [] OTHER -> (17 * i + 3) % 256]
\* the coinbase transaction's hash, and Merkle siblings
TxHash == [i \in 1..HashLen |-> (3 * i + 64) % 256]
Sib(k) == [i \in 1..HashLen |-> (37 * k + 11 * i) % 256]
ChainBranch(n) == [k \in 1..n |-> Sib(k)]

Fill(n) == [i \in 1..n |-> 17]
Reversed(h) == [i \in 1..HashLen |-> h[HashLen + 1 - i]]

\* nonces: 0, 1, 0xDEADBEEF, 0xFFFFFFFF, 0x80000000, and 0x6D6DBEFA, whose
\* little-endian bytes are those of the merged mining header
NonceHdr == U32(28013, 48890)
Nonces == {U32(0, 0), U32(0, 1), U32(57005, 48879), U32(65535, 65535), U32(32768, 0), NonceHdr}

\* chain ids handed to check and to getExpectedIndex
ChainIds == {AuxpowChainId, 0, -1, 2147483647, -2147483647 - 1}

\* parent block versions: chain id 0 (version 1) and chain id 98
ParentVersions == {1, AuxpowChainId * 65536 + 2}

\* the chain index that the expected-index rule asks for
ExpectedFor(nonce, chainId, h) ==
    IF h <= MaxChainBranch THEN RefExpectedIndex(nonce, chainId, h) ELSE 0

\* "beyond" and "below" agree with the expected index on its low h bits
ChainIndexFor(choice, nonce, chainId, h) ==
    CASE choice = "expected" -> ExpectedFor(nonce, chainId, h)
      [] choice = "other"    -> ExpectedFor(nonce, chainId, h) + 1
      [] choice = "beyond"   -> ExpectedFor(nonce, chainId, h)
                                    + 2 ^ (IF h <= MaxChainBranch THEN h ELSE 0)
      [] choice = "below"    -> ExpectedFor(nonce, chainId, h)
                                    - 2 ^ (IF h <= MaxChainBranch THEN h ELSE 0)
      [] OTHER               -> -1

\* the coinbase-in-parent proof: none needed, one sibling, or a wrong root
AuxInput(ni, proof, pv, h, idx, script) ==
    [tx |-> [hash |-> TxHash, scriptSig |-> script],
     vMerkleBranch |-> IF proof = "one" THEN <<Sib(40)>> ELSE <<>>,
     nIndex |-> ni,
     vChainMerkleBranch |-> ChainBranch(h),
     nChainIndex |-> idx,
     parentBlock |-> [nVersion |-> pv,
                      hashMerkleRoot |-> CASE proof = "empty" -> TxHash
                                           [] proof = "one" -> Hash(TxHash, Sib(40))
                                           [] OTHER -> Sib(41)]]

\* coinbase scripts, one per way the script part of check can end
Layouts == {"header", "legacy", "legacy21", "noRoot", "twoHeaders", "gap", "short", "badSize"}

ScriptFor(layout, root, h, nonce) ==
    LET r == Reversed(root)
        size == LE32Pow2(h)
        n == LE32(nonce)
    IN  CASE layout = "header"     -> Fill(20) \o pchMergedHdr \o r \o size \o n
          [] layout = "legacy"     -> Fill(20) \o r \o size \o n
          [] layout = "legacy21"   -> Fill(21) \o r \o size \o n
          [] layout = "noRoot"     -> Fill(20) \o pchMergedHdr \o Reversed(Sib(42)) \o size \o n
          [] layout = "twoHeaders" -> Fill(16) \o pchMergedHdr \o pchMergedHdr \o r \o size \o n
          [] layout = "gap"        -> Fill(20) \o pchMergedHdr \o <<0>> \o r \o size \o n
          [] layout = "short"      -> Fill(20) \o pchMergedHdr \o r \o size \o SubSeq(n, 1, 3)
          [] OTHER                 -> Fill(20) \o pchMergedHdr \o r \o LE32Pow2((h + 1) % 32) \o n

NoAux == AuxInput(0, "empty", 1, 0, 0, <<>>)

(***************************************************************************)
(* Operations                                                               *)
(***************************************************************************)
\* a call of CAuxPow::check as compiled from block.cpp
Check ==
    /\ verdict = "none"
    /\ verdict' = check(aux, hashAuxBlock, nChainId, params)
    /\ UNCHANGED <<aux, hashAuxBlock, nChainId, params, verdictVariant,
                   idxNonce, idxH, idxOut, mLeaf, mBranch, mIndex, mOut>>
    /\ UNCHANGED <<headerVars, registryVars>>

\* a call of CAuxPow::check as compiled from block__.cpp
CheckVariant ==
    /\ verdictVariant = "none"
    /\ verdictVariant' = checkVariant(aux, hashAuxBlock, nChainId, params)
    /\ UNCHANGED <<aux, hashAuxBlock, nChainId, params, verdict,
                   idxNonce, idxH, idxOut, mLeaf, mBranch, mIndex, mOut>>
    /\ UNCHANGED <<headerVars, registryVars>>

\* a call of getExpectedIndex
ExpectedIndex ==
    /\ idxOut = <<>>
    /\ idxOut' = <<getExpectedIndex(idxNonce, nChainId, idxH)>>
    /\ UNCHANGED <<aux, hashAuxBlock, nChainId, params, verdict, verdictVariant,
                   idxNonce, idxH, mLeaf, mBranch, mIndex, mOut>>
    /\ UNCHANGED <<headerVars, registryVars>>

\* a call of CheckMerkleBranch
MerkleBranch ==
    /\ mOut = <<>>
    /\ mOut' = CheckMerkleBranch(mLeaf, mBranch, mIndex)
    /\ UNCHANGED <<aux, hashAuxBlock, nChainId, params, verdict, verdictVariant,
                   idxNonce, idxH, idxOut, mLeaf, mIndex, mBranch>>
    /\ UNCHANGED <<headerVars, registryVars>>

NoIndexCall == idxNonce = U32(0, 0) /\ idxH = 0 /\ idxOut = <<>>
NoMerkleCall == mLeaf = ZeroHash /\ mBranch = <<>> /\ mIndex = 0 /\ mOut = <<>>
NoHeader ==
    /\ header = NullHeader /\ origin = "constructor" /\ called = <<>>
    /\ stream = <<>> /\ rx = <<>> /\ hashOut = <<>>
NoRegistry ==
    /\ globalChainParams = 0 /\ heap = <<>> /\ held = 0
    /\ seen = [kind |-> "none"] /\ nWrites = 0 /\ selects = <<>>

(***************************************************************************)
(* Spec: check (both files) on AuxPoWs that vary in every field             *)
(***************************************************************************)
Init ==
    \E cid \in {AuxpowChainId, 0}, h \in {0, 1, MaxChainBranch, LongBranch},
       choice \in {"expected", "other"}, nonce \in {U32(57005, 48879)} :
      \E idx \in {ChainIndexFor(choice, nonce, cid, h)} :
        \E root \in {RefMerkleRoot(HashA, ChainBranch(h), idx)} :
          \E ni \in {0, 1, -1}, net \in Networks, pv \in ParentVersions,
             proof \in {"empty", "wrong"}, layout \in Layouts :
            /\ aux = AuxInput(ni, proof, pv, h, idx, ScriptFor(layout, root, h, nonce))
            /\ hashAuxBlock = HashA
            /\ nChainId = cid
            /\ params = ConsensusParams(net)
            /\ verdict = "none"
            /\ verdictVariant = "none"
            /\ NoIndexCall
            /\ NoMerkleCall
            /\ NoHeader
            /\ NoRegistry

Next == Check \/ CheckVariant

Spec == Init /\ [][Next]_vars

(***************************************************************************)
(* SpecScript: check on AuxPoWs that vary in the coinbase script            *)
(***************************************************************************)
\* what precedes the merged mining header or the root
Preambles == {Fill(0), Fill(19), Fill(20), Fill(21), Fill(16) \o pchMergedHdr,
              [i \in 1..20 |-> 109]}
\* what lies between the preamble and the root
Markers == {<<>>, pchMergedHdr, pchMergedHdr \o <<0>>, pchMergedHdr \o pchMergedHdr}
\* what follows the root
Tails == {"full", "short", "badSize", "trailingHeader", "longer"}

TailFor(kind, h, nonce) ==
    CASE kind = "full"           -> LE32Pow2(h) \o LE32(nonce)
      [] kind = "short"          -> LE32Pow2(h) \o SubSeq(LE32(nonce), 1, 3)
      [] kind = "badSize"        -> LE32Pow2(h + 1) \o LE32(nonce)
      [] kind = "trailingHeader" -> LE32Pow2(h) \o LE32(nonce) \o pchMergedHdr
      [] OTHER                   -> LE32Pow2(h) \o LE32(nonce) \o <<0, 81>>

InitScript ==
    \E hsh \in {HashA, HashAllM, HashWithHdr}, h \in {0, 1},
       nonce \in {U32(0, 0), U32(57005, 48879), NonceHdr} :
      \E idx \in {ExpectedFor(nonce, AuxpowChainId, h)} :
        \E root \in {RefMerkleRoot(hsh, ChainBranch(h), idx)} :
          \E pre \in Preambles, mid \in Markers, tail \in Tails,
             embedded \in {root, Sib(42)} :
            /\ aux = AuxInput(0, "one", 1, h, idx,
                              pre \o mid \o Reversed(embedded) \o TailFor(tail, h, nonce))
            /\ hashAuxBlock = hsh
            /\ nChainId = AuxpowChainId
            /\ params = ConsensusParams("main")
            /\ verdict = "none"
            /\ verdictVariant = "none"
            /\ NoIndexCall
            /\ NoMerkleCall
            /\ NoHeader
            /\ NoRegistry

NextScript == Check

SpecScript == InitScript /\ [][NextScript]_vars

(***************************************************************************)
(* SpecIndex: getExpectedIndex on its own and inside check                  *)
(***************************************************************************)
InitIndex ==
    \E nonce \in Nonces, cid \in ChainIds, h \in 0..MaxChainBranch :
      \E choice \in {"expected", "other"} :
        \E idx \in {ChainIndexFor(choice, nonce, cid, h)} :
          \E root \in {RefMerkleRoot(HashA, ChainBranch(h), idx)} :
            /\ aux = AuxInput(0, "empty", 1, h, idx, ScriptFor("legacy", root, h, nonce))
            /\ hashAuxBlock = HashA
            /\ nChainId = cid
            /\ params = ConsensusParams("test")
            /\ verdict = "none"
            /\ verdictVariant = "none"
            /\ idxNonce = nonce
            /\ idxH = h
            /\ idxOut = <<>>
            /\ NoMerkleCall
            /\ NoHeader
            /\ NoRegistry

NextIndex == ExpectedIndex \/ Check

SpecIndex == InitIndex /\ [][NextIndex]_vars

(***************************************************************************)
(* SpecMerkle: CheckMerkleBranch on its own                                 *)
(***************************************************************************)
RECURSIVE Branches(_)
Branches(n) ==
    IF n = 0 THEN {<<>>}
    ELSE LET shorter == Branches(n - 1)
         IN  shorter \cup {Append(b, s) : b \in {x \in shorter : Len(x) = n - 1},
                                          s \in {Sib(1), Sib(2)}}

MerkleIndexes == {-1, 0, 1, 2, 3, 5, 6, 7, 8, 15, 16, 17, -2, -3, -8, -16,
                  2147483647, -2147483647 - 1}

InitMerkle ==
    /\ aux = NoAux
    /\ hashAuxBlock = HashA
    /\ nChainId = AuxpowChainId
    /\ params = ConsensusParams("main")
    /\ verdict = "none"
    /\ verdictVariant = "none"
    /\ NoIndexCall
    /\ mLeaf \in {HashA, ZeroHash}
    /\ mBranch \in Branches(MaxBranch)
    /\ mIndex \in MerkleIndexes
    /\ mOut = <<>>
    /\ NoHeader
    /\ NoRegistry

NextMerkle == MerkleBranch

SpecMerkle == InitMerkle /\ [][NextMerkle]_vars

(***************************************************************************)
(* SpecLeaf: check on AuxPoWs that vary in the chain index                  *)
(***************************************************************************)
ChainIndexChoices == {"expected", "other", "beyond", "below", "sentinel"}

InitLeaf ==
    \E nonce \in {U32(0, 0), U32(57005, 48879)}, h \in {0, 1, 2, MaxChainBranch},
       choice \in ChainIndexChoices :
      \E idx \in {ChainIndexFor(choice, nonce, AuxpowChainId, h)} :
        \E root \in {RefMerkleRoot(HashA, ChainBranch(h), idx)} :
          \E layout \in {"header", "legacy", "badSize"} :
            /\ aux = AuxInput(0, "empty", 1, h, idx, ScriptFor(layout, root, h, nonce))
            /\ hashAuxBlock = HashA
            /\ nChainId = AuxpowChainId
            /\ params = ConsensusParams("main")
            /\ verdict = "none"
            /\ verdictVariant = "none"
            /\ NoIndexCall
            /\ NoMerkleCall
            /\ NoHeader
            /\ NoRegistry

NextLeaf == Check

SpecLeaf == InitLeaf /\ [][NextLeaf]_vars

(***************************************************************************)
(* SpecHeader: a header written by its caller, then serialized, read back,  *)
(* hashed, given a base version or a simple AuxPoW, and checked             *)
(***************************************************************************)
\* versions: legacy 1, base 2, base 2 with chain id 0x62, the same with the
\* auxpow bit, base version 0 with a chain id, chain id 0xFFFF with the
\* auxpow bit (a negative int32_t)
HeaderVersions == {1, 2, AuxpowChainId * 65536 + 2, AuxpowChainId * 65536 + VERSION_AUXPOW + 2,
                   AuxpowChainId * 65536, U32ToInt(U32(65535, VERSION_AUXPOW + 4))}

\* values an uninitialised int may hold
Garbage == {0, 7}

\* a CAuxPow with every field filled in
PopulatedAuxPow ==
    [tx |-> MakeTx(<<3, 81, 250, 190>>, 1), hashBlock |-> Sib(9),
     vMerkleBranch |-> <<Sib(40)>>, nIndex |-> 0,
     vChainMerkleBranch |-> <<Sib(1), Sib(2)>>, nChainIndex |-> 3,
     parentBlock |-> [nVersion |-> 1, hashPrevBlock |-> Sib(3), hashMerkleRoot |-> Sib(4),
                      nTime |-> U32(21157, 5540), nBits |-> U32(7695, 65520),
                      nNonce |-> U32(1, 34407), auxpow |-> <<>>]]

\* null, default-initialised (SetAuxpowInitDef) and fully populated
AuxpowPointers == {<<>>, <<PopulatedAuxPow>>} \cup {<<DefaultAuxPow(g)>> : g \in Garbage}

HeaderInput(v, ap) ==
    [nVersion |-> v, hashPrevBlock |-> HashA, hashMerkleRoot |-> Sib(5),
     nTime |-> U32(21157, 5540), nBits |-> U32(7695, 65520), nNonce |-> U32(65535, 65535),
     auxpow |-> ap]

\* arguments of SetBaseVersion, in and out of the asserted range
BaseVersions == {0, 1, 2, 255, 256}
HeaderChainIds == {0, AuxpowChainId, 32767, 32768, 65535}

\* no result of a call on the header is held yet
NoResults ==
    stream = <<>> /\ rx = <<>> /\ hashOut = <<>> /\ verdict = "none" /\ verdictVariant = "none"

\* CBlockHeader::SetNull
SetNull ==
    /\ origin # "aborted" /\ NoResults
    /\ header' = NullHeader
    /\ origin' = "SetNull"
    /\ called' = <<>>
    /\ UNCHANGED <<stream, rx, hashOut, checkVars, registryVars>>

\* CBlockHeader::SetBaseVersion; a failed assert ends the process.  called
\* keeps the arguments <<nBaseVersion, nChainId>> of the call.
CallSetBaseVersion ==
    /\ origin # "aborted" /\ NoResults
    /\ \E b \in BaseVersions, c \in HeaderChainIds :
         \E r \in {SetBaseVersion(header, b, c)} :
            /\ header' = r.h
            /\ origin' = IF r.aborted THEN "aborted" ELSE "SetBaseVersion"
            /\ called' = <<b, c>>
    /\ UNCHANGED <<stream, rx, hashOut, checkVars, registryVars>>

\* CBlockHeader::buildSimpleAuxPow
BuildSimpleAuxPow ==
    /\ origin # "aborted" /\ NoResults
    /\ origin # "buildSimpleAuxPow"
    /\ header' = buildSimpleAuxPow(header)
    /\ origin' = "buildSimpleAuxPow"
    /\ called' = <<>>
    /\ UNCHANGED <<stream, rx, hashOut, checkVars, registryVars>>

\* stream << header; a failed assert ends the process
Encode ==
    /\ origin # "aborted" /\ stream = <<>>
    /\ \E t \in SerTypes :
         \E r \in {Serialize(header, t)} :
            /\ stream' = [type |-> t, aborted |-> r.aborted, bytes |-> r.bytes]
            /\ origin' = IF r.aborted THEN "aborted" ELSE origin
    /\ UNCHANGED <<header, called, rx, hashOut, checkVars, registryVars>>

\* CBlockHeader h; stream >> h
Decode ==
    /\ origin # "aborted" /\ stream # <<>> /\ rx = <<>>
    /\ \E g \in Garbage : rx' = <<Unserialize(NullHeader, stream.bytes, stream.type, g)>>
    /\ UNCHANGED <<header, origin, called, stream, hashOut, checkVars, registryVars>>

\* header.GetHash()
CallGetHash ==
    /\ origin # "aborted" /\ hashOut = <<>>
    /\ hashOut' = <<GetHash(header)>>
    /\ UNCHANGED <<header, origin, called, stream, rx, checkVars, registryVars>>

\* header.auxpow->check(header.GetHash(), 0x0062, mainnet consensus) with the
\* check of block.cpp
CheckHeader ==
    /\ origin # "aborted" /\ header.auxpow # <<>> /\ verdict = "none"
    /\ verdict' = check(header.auxpow[1], GetHash(header), AuxpowChainId, ConsensusParams("main"))
    /\ UNCHANGED <<aux, hashAuxBlock, nChainId, params, verdictVariant,
                   idxNonce, idxH, idxOut, mLeaf, mBranch, mIndex, mOut>>
    /\ UNCHANGED <<headerVars, registryVars>>

\* the same call with the check of block__.cpp
CheckHeaderVariant ==
    /\ origin # "aborted" /\ header.auxpow # <<>> /\ verdictVariant = "none"
    /\ verdictVariant' =
          checkVariant(header.auxpow[1], GetHash(header), AuxpowChainId, ConsensusParams("main"))
    /\ UNCHANGED <<aux, hashAuxBlock, nChainId, params, verdict,
                   idxNonce, idxH, idxOut, mLeaf, mBranch, mIndex, mOut>>
    /\ UNCHANGED <<headerVars, registryVars>>

InitHeader ==
    /\ aux = NoAux
    /\ hashAuxBlock = HashA
    /\ nChainId = AuxpowChainId
    /\ params = ConsensusParams("main")
    /\ verdict = "none"
    /\ verdictVariant = "none"
    /\ NoIndexCall
    /\ NoMerkleCall
    /\ \/ header = NullHeader /\ origin = "constructor"
       \/ \E v \in HeaderVersions, ap \in AuxpowPointers :
             header = HeaderInput(v, ap) /\ origin = "fields"
    /\ called = <<>>
    /\ stream = <<>>
    /\ rx = <<>>
    /\ hashOut = <<>>
    /\ NoRegistry

NextHeader ==
    \/ SetNull
    \/ CallSetBaseVersion
    \/ BuildSimpleAuxPow
    \/ Encode
    \/ Decode
    \/ CallGetHash
    \/ CheckHeader
    \/ CheckHeaderVariant

SpecHeader == InitHeader /\ [][NextHeader]_vars

(***************************************************************************)
(* SpecRegistry: SelectParams, Params, reads through a kept reference and   *)
(* reads of the retarget timespan, in any order                             *)
(***************************************************************************)
\* the most CChainParams objects created in one behaviour
MaxSelects == 3

\* heights around the two transition heights, and the ends of the range
Heights == {-1, 0, 1, 99998, 99999, 100000, 100001, 144998, 144999, 145000, 145001, 2147483646}

\* SelectParams(network)
SelectParams ==
    /\ seen.kind # "aborted" /\ Len(heap) < MaxSelects
    /\ \E network \in RequestedNetworks :
         \E r \in {SelectParamsEffect(globalChainParams, heap, network)} :
            /\ globalChainParams' = r.g
            /\ heap' = r.heap
            /\ nWrites' = IF r.wrote THEN nWrites + 1 ELSE nWrites
            /\ selects' = IF network \in Networks THEN Append(selects, network) ELSE selects
    /\ UNCHANGED <<held, seen, checkVars, headerVars>>

\* const CChainParams& p = Params(); the reader keeps p
CallParams ==
    /\ seen.kind # "aborted"
    /\ seen' = ParamsResult(globalChainParams, heap)
    /\ held' = IF globalChainParams = 0 THEN held ELSE globalChainParams
    /\ UNCHANGED <<globalChainParams, heap, nWrites, selects, checkVars, headerVars>>

\* the reader reads through the reference it kept
ReadHeld ==
    /\ seen.kind # "aborted" /\ held # 0
    /\ seen' \in ReadOutcomes(heap, held)
    /\ UNCHANGED <<globalChainParams, heap, held, nWrites, selects, checkVars, headerVars>>

\* Params().GetConsensus().nPowTargetTimespan at a height and at the next one
ReadTimespan ==
    /\ seen.kind # "aborted"
    /\ \E h \in Heights :
         \E p \in {ParamsResult(globalChainParams, heap)} :
            seen' = IF p.kind = "aborted" THEN p
                    ELSE [kind |-> "timespan", network |-> p.network, height |-> h,
                          at |-> nPowTargetTimespan(p.consensus, h),
                          next |-> nPowTargetTimespan(p.consensus, h + 1)]
    /\ UNCHANGED <<globalChainParams, heap, held, nWrites, selects, checkVars, headerVars>>

InitRegistry ==
    /\ aux = NoAux
    /\ hashAuxBlock = HashA
    /\ nChainId = AuxpowChainId
    /\ params = ConsensusParams("main")
    /\ verdict = "none"
    /\ verdictVariant = "none"
    /\ NoIndexCall
    /\ NoMerkleCall
    /\ NoHeader
    /\ NoRegistry

NextRegistry == SelectParams \/ CallParams \/ ReadHeld \/ ReadTimespan

SpecRegistry == InitRegistry /\ [][NextRegistry]_vars

(***************************************************************************)
(* The state in the words of the specification.  The offsets at which       *)
(* reverse(root) occurs in the script are computed once per formula         *)
(* (RootAt) and handed to the definitions that need them as rootAt.         *)
(***************************************************************************)
Script == aux.tx.scriptSig
Height == Len(aux.vChainMerkleBranch)
\* parent_header.chain_id: version >> 16
ParentChainId == aux.parentBlock.nVersion \div 65536
\* reverse(root), root being the aux tree root recomputed from the block hash
RootRev == Reversed(RefMerkleRoot(hashAuxBlock, aux.vChainMerkleBranch, aux.nChainIndex))
HeaderAt == Occurrences(Script, pchMergedHdr)
RootAt == Occurrences(Script, RootRev)
\* the two little-endian fields after the root
SizeField(rootAt) == SubSeq(Script, Least(rootAt) + HashLen + 1, Least(rootAt) + HashLen + 4)
NonceField(rootAt) ==
    LET p == Least(rootAt) + HashLen
    IN  U32(Script[p + 8] * 256 + Script[p + 7], Script[p + 6] * 256 + Script[p + 5])

\* the steps of the validator, each as the condition under which it fails
NotGenerate == aux.nIndex # 0
ParentIsOurs == params.fStrictChainId /\ ParentChainId = nChainId
TooLong == Height > 30
BadCoinbaseProof ==
    RefMerkleRoot(aux.tx.hash, aux.vMerkleBranch, aux.nIndex) # aux.parentBlock.hashMerkleRoot
MarkerVerdict(rootAt) ==
    IF HeaderAt # {}
      THEN IF Cardinality(HeaderAt) # 1 THEN "MultipleMergedMiningHeaders"
           ELSE IF Least(HeaderAt) + 4 # Least(rootAt) THEN "HeaderNotJustBeforeRoot" ELSE "OK"
      ELSE IF Least(rootAt) <= 20 THEN "OK" ELSE "RootMustStartInFirst20Bytes"
SizeMissing(rootAt) == Len(Script) - (Least(rootAt) + HashLen) < 8
SizeMismatch(rootAt) == SizeField(rootAt) # LE32Pow2(Height)
IndexWrong(rootAt) == aux.nChainIndex # RefExpectedIndex(NonceField(rootAt), nChainId, Height)

StepsOneToFivePass == ~NotGenerate /\ ~ParentIsOurs /\ ~TooLong /\ ~BadCoinbaseProof
StepsOneToSixPass(rootAt) == StepsOneToFivePass /\ rootAt # {}
StepsOneToNinePass(rootAt) ==
    /\ StepsOneToSixPass(rootAt)
    /\ MarkerVerdict(rootAt) = "OK"
    /\ ~SizeMissing(rootAt)
    /\ ~SizeMismatch(rootAt)

\* the kind of the earliest failing step, "OK" when no step fails
ScriptVerdict(rootAt) ==
    CASE rootAt = {}                  -> "MissingChainMerkleRoot"
      [] MarkerVerdict(rootAt) # "OK" -> MarkerVerdict(rootAt)
      [] SizeMissing(rootAt)          -> "ChainMerkleSizeMissing"
      [] SizeMismatch(rootAt)         -> "MerkleBranchSizeMismatch"
      [] IndexWrong(rootAt)           -> "WrongIndex"
      [] OTHER                        -> "OK"

ExpectedVerdictIs(v) ==
    CASE NotGenerate      -> v = "NotAGenerate"
      [] ParentIsOurs     -> v = "ParentHasOurChainId"
      [] TooLong          -> v = "ChainBranchTooLong"
      [] BadCoinbaseProof -> v = "MerkleRootIncorrect"
      [] OTHER            -> \A rootAt \in {RootAt} : v = ScriptVerdict(rootAt)

PastMarkerPolicy == {"ChainMerkleSizeMissing", "MerkleBranchSizeMismatch", "WrongIndex", "OK"}

(***************************************************************************)
(* Properties                                                               *)
(***************************************************************************)
\* C1: every implementation of check in the repository rejects an AuxPoW
\* whose coinbase index nIndex is not 0, whatever the other inputs are.
C1_EveryCheckRejectsNonZeroIndex ==
    aux.nIndex # 0 => verdict # "OK" /\ verdictVariant # "OK"

\* C2: check succeeds iff no step fails, and otherwise reports the kind of
\* the earliest failing step in the order of the algorithm.
C2_EarliestFailingStep ==
    verdict # "none" => ExpectedVerdictIs(verdict)

\* C2 witness: two steps fail at once (branch too long, coinbase proof wrong)
\* and the earlier one is reported.
C2_Witness ==
    /\ verdict = "ChainBranchTooLong"
    /\ ~NotGenerate /\ ~ParentIsOurs /\ TooLong /\ BadCoinbaseProof

\* C3 as stated: under strict chain id, check rejects every AuxPoW whose
\* parent chain id equals params.nAuxpowChainId, for every nChainId argument.
C3_StrictRejectsParamsChainId ==
    (verdict # "none" /\ params.fStrictChainId /\ ParentChainId = params.nAuxpowChainId)
        => verdict # "OK"

\* C3 amended: under strict chain id, check rejects every AuxPoW whose parent
\* chain id equals the nChainId argument.
C3_StrictRejectsArgumentChainId ==
    (verdict # "none" /\ params.fStrictChainId /\ ParentChainId = nChainId)
        => verdict # "OK"

\* C3 witness: a parent with the argument's chain id, which is not the one
\* of params, is rejected for its chain id.
C3_Witness ==
    /\ verdict = "ParentHasOurChainId"
    /\ params.fStrictChainId
    /\ ParentChainId = nChainId
    /\ nChainId # params.nAuxpowChainId

\* C4: with the header present and steps 1-6 passing, check goes past the
\* marker policy only if the header occurs once and ends where the root
\* begins; a second header gives MultipleMergedMiningHeaders, any other
\* misplacement HeaderNotJustBeforeRoot.
C4_HeaderPolicy ==
    (verdict # "none" /\ StepsOneToFivePass /\ HeaderAt # {}) =>
        \A rootAt \in {RootAt} :
            rootAt # {} =>
                /\ (Cardinality(HeaderAt) > 1 <=> verdict = "MultipleMergedMiningHeaders")
                /\ ((Cardinality(HeaderAt) = 1 /\ Least(HeaderAt) + 4 # Least(rootAt))
                        <=> verdict = "HeaderNotJustBeforeRoot")
                /\ ((Cardinality(HeaderAt) = 1 /\ Least(HeaderAt) + 4 = Least(rootAt))
                        <=> verdict \in PastMarkerPolicy)

\* C4 witness: one byte between the only header and the root.
C4_Witness ==
    /\ verdict = "HeaderNotJustBeforeRoot"
    /\ StepsOneToFivePass
    /\ Cardinality(HeaderAt) = 1
    /\ \E rootAt \in {RootAt} : rootAt # {} /\ Least(rootAt) = Least(HeaderAt) + 5

\* C5: without the header and with steps 1-6 passing, the marker policy
\* passes iff the root first occurs at offset <= 20.
C5_LegacyPolicy ==
    (verdict # "none" /\ StepsOneToFivePass /\ HeaderAt = {}) =>
        \A rootAt \in {RootAt} :
            rootAt # {} =>
                /\ (Least(rootAt) <= 20 <=> verdict \in PastMarkerPolicy)
                /\ (Least(rootAt) > 20 <=> verdict = "RootMustStartInFirst20Bytes")

\* C5 witness: exactly 20 bytes before the root, no header, accepted.
C5_Witness ==
    /\ verdict = "OK"
    /\ HeaderAt = {}
    /\ \E rootAt \in {RootAt} : rootAt # {} /\ Least(rootAt) = 20

\* the AuxPoW of the happy path: coinbase index 0, valid coinbase proof,
\* foreign parent, one-leaf aux tree, and a script of 20 bytes, the header,
\* reverse(root), size 1 and a nonce
HappyPathShape ==
    /\ aux.nIndex = 0
    /\ ~BadCoinbaseProof
    /\ ParentChainId # nChainId
    /\ aux.vChainMerkleBranch = <<>>
    /\ aux.nChainIndex = 0
    /\ Len(Script) = 20 + 4 + HashLen + 8
    /\ SubSeq(Script, 21, 24) = pchMergedHdr
    /\ SubSeq(Script, 25, 24 + HashLen) = Reversed(hashAuxBlock)
    /\ SubSeq(Script, 25 + HashLen, 28 + HashLen) = <<1, 0, 0, 0>>

\* C6 as stated: every AuxPoW of the happy-path shape is accepted, for
\* every preamble, block hash and nonce.
C6_HappyPathAlwaysAccepted ==
    (verdict # "none" /\ HappyPathShape) => verdict = "OK"

\* C6 amended: an AuxPoW of the happy-path shape is accepted when the header
\* occurs in the script only at offset 20 and reverse(root) does not occur
\* before offset 24.
C6_HappyPathAccepted ==
    (verdict # "none" /\ HappyPathShape /\ HeaderAt = {20} /\ Least(RootAt) = 24)
        => verdict = "OK"

\* C6 witness: such an AuxPoW, checked and accepted.
C6_Witness ==
    /\ verdict = "OK"
    /\ HappyPathShape
    /\ HeaderAt = {20}
    /\ Least(RootAt) = 24

\* C7: getExpectedIndex wraps every multiplication and addition at 32
\* unsigned bits, also for a negative chain id, and never returns a negative
\* value; after steps 1-9 pass, check fails with WrongIndex exactly when the
\* chain index differs from that value.
C7_ExpectedIndex ==
    /\ idxOut # <<>> =>
          /\ idxOut[1] = RefExpectedIndex(idxNonce, nChainId, idxH)
          /\ idxOut[1] >= 0
    /\ verdict # "none" =>
          \A rootAt \in {RootAt} :
              StepsOneToNinePass(rootAt) =>
                  \A wrong \in {IndexWrong(rootAt)} :
                      /\ (wrong <=> verdict = "WrongIndex")
                      /\ (~wrong <=> verdict = "OK")

\* C7 witness: a negative chain id and the deepest tree, the index computed
\* and a differing chain index refused.
C7_Witness ==
    /\ idxOut # <<>>
    /\ nChainId < 0
    /\ idxH = 30
    /\ idxOut[1] > 0
    /\ verdict = "WrongIndex"
    /\ \E rootAt \in {RootAt} : StepsOneToNinePass(rootAt)

\* C8: a chain branch of 30 with size field 2^30 and the expected chain
\* index is accepted when the other steps pass; a chain branch of 31 or more
\* that passes steps 1-2 is rejected with ChainBranchTooLong whatever the
\* Merkle proofs and the script are.
C8_BranchLengthBoundary ==
    /\ (verdict # "none" /\ Height = 30 /\ StepsOneToFivePass) =>
          \A rootAt \in {RootAt} :
              (/\ rootAt # {}
               /\ MarkerVerdict(rootAt) = "OK"
               /\ ~SizeMissing(rootAt)
               /\ SizeField(rootAt) = <<0, 0, 0, 64>>
               /\ ~IndexWrong(rootAt))
                  => verdict = "OK"
    /\ (verdict # "none" /\ Height >= 31 /\ ~NotGenerate /\ ~ParentIsOurs)
          => verdict = "ChainBranchTooLong"

\* C8 witness: a branch of exactly 30 siblings, accepted.
C8_Witness ==
    /\ verdict = "OK"
    /\ Height = 30
    /\ \E rootAt \in {RootAt} : rootAt # {} /\ SizeField(rootAt) = <<0, 0, 0, 64>>

\* C9: CheckMerkleBranch equals the reference verifier: the zero hash for
\* index -1, otherwise the fold that puts the sibling first when the bit of
\* the index (two's complement) is 1.
C9_MerkleMatchesReference ==
    mOut # <<>> => mOut = RefMerkleRoot(mLeaf, mBranch, mIndex)

\* C9 witness: a negative index other than -1 over at least two siblings.
C9_Witness ==
    /\ mOut # <<>>
    /\ mIndex < -1
    /\ Len(mBranch) >= 2
    /\ mOut # ZeroHash

\* two indices with the same low n bits
AgreeOnLowBits(i, j, n) == \A k \in 0..(n - 1) : IndexBit(i, k) = IndexBit(j, k)

\* C10 as stated: two indices that agree on their low |branch| bits give
\* the same result, and an empty branch returns the leaf for every index.
C10_OnlyLowBitsMatter ==
    mOut # <<>> =>
        /\ \A j \in MerkleIndexes :
              AgreeOnLowBits(j, mIndex, Len(mBranch))
                  => CheckMerkleBranch(mLeaf, mBranch, j) = mOut
        /\ (mBranch = <<>> => mOut = mLeaf)

\* C10 amended: the same for indices other than -1.
C10_OnlyLowBitsMatterExceptSentinel ==
    (mOut # <<>> /\ mIndex # -1) =>
        /\ \A j \in MerkleIndexes \ {-1} :
              AgreeOnLowBits(j, mIndex, Len(mBranch))
                  => CheckMerkleBranch(mLeaf, mBranch, j) = mOut
        /\ (mBranch = <<>> => mOut = mLeaf)

\* C10 witness: a non-empty branch and another index, of the other sign, with
\* the same low bits.
C10_Witness ==
    /\ mOut # <<>>
    /\ mBranch # <<>>
    /\ mIndex > 0
    /\ \E j \in MerkleIndexes \ {-1} : j < 0 /\ AgreeOnLowBits(j, mIndex, Len(mBranch))

(***************************************************************************)
(* Properties of the header                                                 *)
(***************************************************************************)
\* the 80-byte preimage as the wire layout gives it: version (two's
\* complement), prev_block, merkle_root, time, bits, nonce, all little-endian
RefPreimage(h) ==
    [k \in 1..4 |-> (h.nVersion \div (256 ^ (k - 1))) % 256]
        \o h.hashPrevBlock \o h.hashMerkleRoot \o LE32(h.nTime) \o LE32(h.nBits) \o LE32(h.nNonce)

\* C11: GetHash depends only on the six fields of the 80-byte preimage: it is
\* the digest of that preimage, and it is the same whatever the auxpow
\* pointer is (null, default-initialised, populated) and whether or not the
\* auxpow bit is set; hashing never asserts on the appendix.
C11_HashOfPreimageOnly ==
    hashOut # <<>> =>
        /\ Len(RefPreimage(header)) = 80
        /\ hashOut[1] = HashOfBytes(RefPreimage(header))
        /\ ~Serialize(header, "SER_GETHASH").aborted
        /\ \A ap \in AuxpowPointers : GetHash([header EXCEPT !.auxpow = ap]) = hashOut[1]

\* C11 witness: the hash of a header with the auxpow bit set and no appendix,
\* and of one with an appendix and the bit not set.
C11_Witness ==
    /\ hashOut # <<>>
    /\ \/ IsAuxpow(header) /\ header.auxpow = <<>>
       \/ ~IsAuxpow(header) /\ header.auxpow = <<PopulatedAuxPow>>

\* equality of two headers in the six preimage fields
SameSixFields(a, b) ==
    /\ a.nVersion = b.nVersion
    /\ a.hashPrevBlock = b.hashPrevBlock
    /\ a.hashMerkleRoot = b.hashMerkleRoot
    /\ a.nTime = b.nTime /\ a.nBits = b.nBits /\ a.nNonce = b.nNonce

\* equality in the presence and the contents of the appendix
SameAppendix(a, b) ==
    /\ (a.auxpow = <<>>) <=> (b.auxpow = <<>>)
    /\ a.auxpow # <<>> /\ b.auxpow # <<>> =>
          LET x == a.auxpow[1]
              y == b.auxpow[1]
          IN  /\ x.tx = y.tx
              /\ x.hashBlock = y.hashBlock
              /\ x.vMerkleBranch = y.vMerkleBranch /\ x.nIndex = y.nIndex
              /\ x.vChainMerkleBranch = y.vChainMerkleBranch /\ x.nChainIndex = y.nChainIndex
              /\ SameSixFields(x.parentBlock, y.parentBlock)

\* the auxpow bit and the auxpow pointer agree
BitMatchesPointer(h) == IsAuxpow(h) <=> h.auxpow # <<>>

\* C12 as stated: for every header, writing it to a non-hash stream never
\* aborts, and reading it back gives a header equal in the six fields and in
\* the presence and contents of the appendix.
C12_RoundTripEveryHeader ==
    (stream # <<>> /\ stream.type # "SER_GETHASH") =>
        /\ ~stream.aborted
        /\ rx # <<>> => SameSixFields(rx[1], header) /\ SameAppendix(rx[1], header)

\* C12 amended: the round trip holds, and writing does not abort, for every
\* header whose auxpow pointer is non-null exactly when its auxpow bit is
\* set; with the bit set and a null pointer writing aborts; with the bit
\* clear and a non-null pointer the appendix is not written and the header
\* read back, equal in the six fields, has none.
C12_RoundTripWhenBitMatchesPointer ==
    (stream # <<>> /\ stream.type # "SER_GETHASH") =>
        /\ BitMatchesPointer(header) =>
              /\ ~stream.aborted
              /\ rx # <<>> => SameSixFields(rx[1], header) /\ SameAppendix(rx[1], header)
        /\ (IsAuxpow(header) /\ header.auxpow = <<>>) => stream.aborted
        /\ (~IsAuxpow(header) /\ header.auxpow # <<>>) =>
              /\ ~stream.aborted
              /\ rx # <<>> => SameSixFields(rx[1], header) /\ rx[1].auxpow = <<>>

\* C12 witness: an auxpow header of negative version with a populated
\* appendix, written to a network stream and read back whole.
C12_Witness ==
    /\ stream # <<>> /\ stream.type = "SER_NETWORK"
    /\ rx # <<>>
    /\ header.nVersion < 0 /\ IsAuxpow(header)
    /\ header.auxpow = <<PopulatedAuxPow>>
    /\ rx[1] = header

\* C13: in every state a header reaches through its constructor, SetNull,
\* SetBaseVersion and decoding, base_version = nVersion & 0xFF lies in [1, 256).
C13_BaseVersionInRange ==
    /\ origin \in {"constructor", "SetNull", "SetBaseVersion"} =>
          (GetBaseVersion(header) >= 1 /\ GetBaseVersion(header) < 256)
    /\ rx # <<>> => (GetBaseVersion(rx[1]) >= 1 /\ GetBaseVersion(rx[1]) < 256)

(***************************************************************************)
(* Properties of the registry and of the retarget timespan                  *)
(***************************************************************************)
\* C14 as stated: the registry is written at most once, and a reference
\* obtained from Params() stays valid and stays the registry's object.
C14_SingleAssignment ==
    /\ nWrites <= 1
    /\ held # 0 => heap[held].live /\ held = globalChainParams

\* C14 amended: the registry is written once by every SelectParams that
\* completes and by nothing else; it owns the object made last, which is the
\* only live one; a reference obtained from Params() is valid exactly as
\* long as no later SelectParams completed; reads through it go wrong only
\* after a second completed SelectParams.
C14_WrittenOncePerSelect ==
    /\ nWrites = Len(selects)
    /\ globalChainParams = Len(heap)
    /\ \A k \in 1..Len(heap) : heap[k].live <=> k = globalChainParams
    /\ held # 0 => (heap[held].live <=> held = globalChainParams)
    /\ (held # 0 /\ Len(selects) <= 1) => heap[held].live
    /\ seen.kind = "garbage" => Len(selects) >= 2

\* C14 witness: a second SelectParams completed after Params() gave out a
\* reference, and the read through that reference found no parameter set.
C14_Witness ==
    /\ nWrites = 2
    /\ held = 1 /\ ~heap[held].live
    /\ seen.kind = "garbage"

\* the hard-coded parameter sets, as far as they are modelled: chain id
\* 0x0062 everywhere, strict except on testnet, timespan 14400 until height
\* 145000 (regtest: 1 until 100000), spacing 60 (regtest: 1)
RefParameterSet(network) ==
    CASE network = "main" ->
           [nAuxpowChainId |-> 98, fStrictChainId |-> TRUE, nPowTargetTimespanBegin |-> 14400,
            nPowTargetSpacing |-> 60, PowTargetTimespan60Height |-> 145000]
      [] network = "test" ->
           [nAuxpowChainId |-> 98, fStrictChainId |-> FALSE, nPowTargetTimespanBegin |-> 14400,
            nPowTargetSpacing |-> 60, PowTargetTimespan60Height |-> 145000]
      [] network = "regtest" ->
           [nAuxpowChainId |-> 98, fStrictChainId |-> TRUE, nPowTargetTimespanBegin |-> 1,
            nPowTargetSpacing |-> 1, PowTargetTimespan60Height |-> 100000]

RefView(network) ==
    [kind |-> "params", network |-> network, consensus |-> RefParameterSet(network)]

\* C15: in every state Params() aborts if no SelectParams has completed and
\* otherwise returns the hard-coded set of the SelectParams completed last
\* (a later select replaces an earlier one; selecting the same network twice
\* gives what selecting it once gives).
C15_ParamsOfLastSelect ==
    /\ \A r \in {ParamsResult(globalChainParams, heap)} :
          IF selects = <<>> THEN r.kind = "aborted"
          ELSE r = RefView(selects[Len(selects)])
    /\ seen.kind = "aborted" => selects = <<>>
    /\ (seen.kind = "params" /\ held = globalChainParams) => seen = RefView(selects[Len(selects)])

\* C15 witness: three selects, the second of another network than the first
\* and the third of the same network as the second, then Params().
C15_Witness ==
    /\ Len(selects) = 3
    /\ selects[1] # selects[2] /\ selects[2] = selects[3]
    /\ held = globalChainParams
    /\ seen = RefView(selects[3])

\* C16: on each network nPowTargetTimespan(h+1) <= nPowTargetTimespan(h), and
\* the two differ only when h+1 is the network's transition height.
C16_TimespanMonotonic ==
    seen.kind = "timespan" =>
        /\ seen.next <= seen.at
        /\ seen.next # seen.at =>
              seen.height + 1 = RefParameterSet(seen.network).PowTargetTimespan60Height

(***************************************************************************)
(* Properties relating the two checks, the accepted AuxPoWs and the header  *)
(***************************************************************************)
\* C17: the check of block.cpp and the check of block__.cpp give the same
\* verdict and error kind on every input with nIndex = 0; they differ only
\* on inputs with nIndex # 0, which the check of block.cpp always rejects.
C17_VariantsAgreeOnIndexZero ==
    (verdict # "none" /\ verdictVariant # "none") =>
        /\ aux.nIndex = 0 => verdict = verdictVariant
        /\ verdict # verdictVariant => aux.nIndex # 0
        /\ aux.nIndex # 0 => verdict = "NotAGenerate"

\* C17 witness: an input with nIndex = 0 refused by both for its script, the
\* coinbase proof and the chain branch being in order.
C17_Witness ==
    /\ aux.nIndex = 0
    /\ verdict = "HeaderNotJustBeforeRoot"
    /\ verdictVariant = "HeaderNotJustBeforeRoot"

\* C18: whenever check accepts, 0 <= nChainIndex < 2^|vChainMerkleBranch|
\* (so the sentinel -1 and every other negative or too large index is
\* rejected), the size field read from the script is 2^|vChainMerkleBranch|,
\* and |vChainMerkleBranch| <= 30.
C18_AcceptedIndexIsALeaf ==
    /\ verdict = "OK" =>
          /\ Height <= 30
          /\ aux.nChainIndex >= 0
          /\ aux.nChainIndex < 2 ^ Height
          /\ \A rootAt \in {RootAt} : rootAt # {} /\ SizeField(rootAt) = LE32Pow2(Height)
    /\ (verdict # "none" /\ aux.nChainIndex = -1) => verdict # "OK"

\* C18 witness: an accepted AuxPoW of the deepest tree at a leaf position
\* other than 0.
C18_Witness ==
    /\ verdict = "OK"
    /\ Height = 30
    /\ aux.nChainIndex > 0

\* C19: after buildSimpleAuxPow the header has the auxpow bit and an
\* appendix, and auxpow->check(GetHash(), 0x0062, mainnet params) succeeds
\* on it (check of block__.cpp), whether or not the bit was set before.
C19_BuildThenCheck ==
    origin = "buildSimpleAuxPow" =>
        /\ IsAuxpow(header)
        /\ header.auxpow # <<>>
        /\ verdictVariant # "none" => verdictVariant = "OK"

\* C20: SetBaseVersion(b, c) with b in [1, 256) and c in [0, 65535] on a
\* non-auxpow header leaves GetBaseVersion() = b, GetChainId() = c and
\* IsAuxpow() false.
C20_VersionFieldRoundTrip ==
    (origin = "SetBaseVersion" /\ called[1] \in 1..255 /\ called[2] \in 0..65535) =>
        /\ GetBaseVersion(header) = called[1]
        /\ GetChainId(header) = called[2]
        /\ ~IsAuxpow(header)

====
